---- MODULE Spec2Model ----
(***************************************************************************)
(* SendPack (src/autojobs/sendpack/sendpack.ts, the revision with          *)
(* validation, retries, timeout and body parsing): one dispatcher          *)
(* instance, the caller that owns the packet object, and the transport     *)
(* (node-fetch) as the environment of send.                                *)
(*                                                                         *)
(* A send call is suspended at three awaits: the network call of           *)
(* fetchWithTimeout (pc = "fetching"), the body read of parseResponseBody  *)
(* (pc = "reading") and the timer of backoff (pc = "backoff").  Everything *)
(* the code does between two awaits is one action.                         *)
(***************************************************************************)
EXTENDS Integers, FiniteSets, Sequences, TLC

VARIABLES
    endpoint,      \* the endpoint given to the constructor (this.endpoint)
    options,       \* SendPackOptions given to the constructor
    ctorError,     \* what the constructor threw ("" when it returned)
    retries,       \* this.retries
    timeoutMs,     \* this.timeoutMs
    retryDelayMs,  \* this.retryDelayMs
    headers,       \* this.headers
    idempotencyKey,\* this.idempotencyKey
    packet,        \* the caller's packet object (send holds a reference to it)
    argument,      \* a copy of that object taken when send was called
    pc,            \* where the send call stands
    body,          \* const body = JSON.stringify(packet)
    attempt,       \* let attempt
    lastStatus,    \* let lastStatus
    lastError,     \* let lastError
    lastBody,      \* let lastBody
    res,           \* headers of the response whose body is being read
    timerArmed,    \* the setTimeout of fetchWithTimeout is pending
    timerOwner,    \* the attempt whose AbortController that timer aborts
    inflight,      \* attempts whose network call is open
    waitMs,        \* delay of the pending backoff timer
    result,        \* what the call resolved to (SendResult) or rejected with
    requests,      \* POST requests issued by this call
    sentBodies,    \* the request bodies put on the wire by this call
    wire,          \* url, method and headers of the requests of this call
    waits,         \* backoff waits started by this call
    kinds,         \* how the settled attempts of this call ended
    lastEvent,     \* what the transport did to the latest attempt
    mutated,       \* the caller changed the packet while send was suspended
    focus,         \* which of two send calls the variables above belong to
    parked,        \* the other send call, suspended at an await (or not begun)
    \* NodexEngine.fetchWithTimeout
    nxRetryCount,  \* this.retryCount
    nxPc,          \* where the call stands
    nxAttempt,     \* the loop variable attempt
    nxTimer,       \* the setTimeout of the current attempt is pending
    nxWaitMs,      \* delay of the pending backoff timer
    nxResult,      \* what the call returned or threw
    nxRequests,    \* requests issued by this call
    nxWaits,       \* backoff waits started by this call
    nxErrors,      \* the errors the catch clause has seen in this call
    \* NodexEngine.analyzeBatch
    nbConcurrency, \* this.concurrency
    nbPc,          \* where the call stands
    nbSymbols,     \* the symbols argument
    nbQueue,       \* const queue
    nbResults,     \* const results (a symbol stands for its metrics)
    nbWorker,      \* for each worker the symbol it is analysing
    nbAnalysed,    \* how many analyses were started for each symbol
    nbFailed,      \* the symbols whose analysis failed
    \* NeuroAgent.ensureModelLoaded
    naModel,       \* this.model (0: none; else the load that produced it)
    naLoading,     \* this.loadingPromise (0: null; else the load it belongs to)
    naPromise,     \* for each load started: "pending", "ok" or "failed"
    naCaller,      \* for each caller: where it stands, on which load, its result
    \* JobTracker and its HTTP API
    jtJobs,        \* the jobs of the tracker, in the order of creation
    jtEvents,      \* the events the tracker has emitted
    jtRequest,     \* the request handled last
    jtResponse,    \* the response to it
    jtRequests     \* how many requests have been handled

cfgVars == <<endpoint, options, ctorError, retries, timeoutMs, retryDelayMs,
             headers, idempotencyKey>>
callVars == <<pc, body, attempt, lastStatus, lastError, lastBody, res,
              timerArmed, timerOwner, inflight, waitMs, result>>
histVars == <<requests, sentBodies, wire, waits, kinds, lastEvent, mutated>>
vars == <<endpoint, options, ctorError, retries, timeoutMs, retryDelayMs, headers,
          idempotencyKey, packet, argument, pc, body, attempt, lastStatus, lastError,
          lastBody, res, timerArmed, timerOwner, inflight, waitMs, result,
          requests, sentBodies, wire, waits, kinds, lastEvent, mutated,
          focus, parked, nxRetryCount, nxPc, nxAttempt, nxTimer, nxWaitMs,
          nxResult, nxRequests, nxWaits, nxErrors, nbConcurrency, nbPc,
          nbSymbols, nbQueue, nbResults, nbWorker, nbAnalysed, nbFailed,
          naModel, naLoading, naPromise, naCaller,
          jtJobs, jtEvents, jtRequest, jtResponse, jtRequests>>
peerVars == <<focus, parked>>
sendVars == <<cfgVars, packet, argument, callVars, histVars, peerVars>>
nxVars == <<nxRetryCount, nxPc, nxAttempt, nxTimer, nxWaitMs, nxResult,
            nxRequests, nxWaits, nxErrors>>
nbVars == <<nbConcurrency, nbPc, nbSymbols, nbQueue, nbResults, nbWorker,
            nbAnalysed, nbFailed>>
\* everything but SendPack / but NodexEngine.fetchWithTimeout / but
\* NodexEngine.analyzeBatch / but NeuroAgent / but JobTracker
naVars == <<naModel, naLoading, naPromise, naCaller>>
jtVars == <<jtJobs, jtEvents, jtRequest, jtResponse, jtRequests>>
otherVars == <<nxVars, nbVars, naVars, jtVars>>
notNxVars == <<sendVars, nbVars, naVars, jtVars>>
notNbVars == <<sendVars, nxVars, naVars, jtVars>>
notNaVars == <<sendVars, nxVars, nbVars, jtVars>>
notJtVars == <<sendVars, nxVars, nbVars, naVars>>

----------------------------------------------------------------------------
(* Bounds and program constants                                            *)

MaxRetriesOpt == 1
MaxRetryCount == 2
MaxConcurrency == 2
MaxSymbols == 3
MaxLoads == 3
MaxJobs == 2
MaxRequests == 4
\* the concurrent callers of ensureModelLoaded (predict calls)
NaCallers == {1, 2}
DEFAULT_RETRIES == 2
DEFAULT_TIMEOUT_MS == 5000
DEFAULT_RETRY_DELAY_MS == 300

----------------------------------------------------------------------------
(* JavaScript values                                                       *)

\* A JS number or a missing option: an integer, a non-integer or undefined.
Num(k, v) == [kind |-> k, val |-> v]
UndefinedNum == Num("undef", 0)
FracNum == Num("frac", 1)
NaNNum == Num("nan", 0)

Undefined == [type |-> "undefined"]

\* Number.isInteger
IsInteger(n) == n.kind = "int"

\* options.retries of the model: -1 (invalid), 0 .. MaxRetriesOpt
RetriesOpts == {Num("int", v) : v \in -1..MaxRetriesOpt}
TimeoutOpts == {Num("int", 0), Num("int", 50)}
RetryDelayOpts == {Num("int", -1), Num("int", 100)}

\* numeric options as a caller may give them: missing, fractional, NaN,
\* negative, zero, and a valid value
AnyRetriesOpts == {UndefinedNum, FracNum, NaNNum, Num("int", -1), Num("int", 0),
                   Num("int", 1)}
AnyTimeoutOpts == {UndefinedNum, FracNum, Num("int", -1), Num("int", 0),
                   Num("int", 50)}
AnyRetryDelayOpts == {UndefinedNum, FracNum, Num("int", -1), Num("int", 0),
                      Num("int", 100)}

\* Header objects are functions from header names to values; << >> is {}
\* (and a missing options.headers, which `?? {}` turns into {}).
NoHeaders == << >>
HeaderOpts == {NoHeaders,
               "X-Trace" :> "t1",
               "Content-Type" :> "text/plain",
               "Idempotency-Key" :> "other"}
\* options.userAgent and options.idempotencyKey: "" stands for a missing or
\* empty value (both are falsy)
UserAgentOpts == {"", "bitwake/1.0"}
IdempotencyKeyOpts == {"", "k1"}

\* the endpoint argument: empty, no URL, a relative reference, an absolute URL
ValidEndpoint == "https://api.bitwake.example/packets"
Endpoints == {"", "not a url", "/packets", ValidEndpoint}
\* new URL(endpoint) returns (it throws on anything but an absolute URL)
UrlParses(e) == e = ValidEndpoint

----------------------------------------------------------------------------
(* Construction                                                            *)

\* (faulty variant: the >= 0 test is missing)
ResolveRetriesAnyInteger(o) == IF IsInteger(o) THEN o.val ELSE DEFAULT_RETRIES
ResolveRetries(o) == IF IsInteger(o) /\ o.val >= 0 THEN o.val ELSE DEFAULT_RETRIES
\* (faulty variant: a timeout of 0 is accepted)
ResolveTimeoutMsAllowsZero(o) ==
    IF IsInteger(o) /\ o.val >= 0 THEN o.val ELSE DEFAULT_TIMEOUT_MS
ResolveTimeoutMs(o) == IF IsInteger(o) /\ o.val > 0 THEN o.val ELSE DEFAULT_TIMEOUT_MS
ResolveRetryDelayMs(o) ==
    IF IsInteger(o) /\ o.val >= 0 THEN o.val ELSE DEFAULT_RETRY_DELAY_MS

\* what the constructor throws for this endpoint ("" when it does not throw)
\* (faulty variant: only the empty endpoint is refused, as in the older revision)
EndpointErrorEmptyOnly(e) == IF e = "" THEN "Endpoint URL is required" ELSE ""
EndpointError(e) ==
    IF e = "" THEN "Endpoint URL is required"
    ELSE IF ~UrlParses(e) THEN "Invalid endpoint URL"
    ELSE ""

\* { ...a, ...b }
Spread(a, b) ==
    [k \in DOMAIN a \cup DOMAIN b |-> IF k \in DOMAIN b THEN b[k] ELSE a[k]]
\* this.headers
ResolveHeaders(o) ==
    Spread(Spread(Spread("Content-Type" :> "application/json",
                         IF o.userAgent # "" THEN "User-Agent" :> o.userAgent
                                             ELSE NoHeaders),
                  IF o.idempotencyKey # "" THEN "Idempotency-Key" :> o.idempotencyKey
                                           ELSE NoHeaders),
           o.headers)

----------------------------------------------------------------------------
(* Packets                                                                 *)

PayloadKeys == {"a"}
\* payload field values: a number, undefined, a BigInt
PayloadVals == {"one", "undef", "bigint"}
Mapping(f) == [tag |-> "map", fields |-> f]
NotAMapping == [tag |-> "null", fields |-> << >>]
Payloads == {NotAMapping}
            \cup {Mapping(f) : f \in [PayloadKeys -> PayloadVals]}
Timestamps == {Num("int", 7), Num("int", -1), FracNum, NaNNum}
Ids == {"", "p1"}
Packets == [id : Ids, timestamp : Timestamps, payload : Payloads]
NoPacket == [id |-> "", timestamp |-> UndefinedNum, payload |-> NotAMapping]

\* PacketSchema.safeParse(packet).success
\* (faulty variant: z.string() without min(1))
ValidPacketAnyId(p) ==
    /\ IsInteger(p.timestamp) /\ p.timestamp.val >= 0
    /\ p.payload.tag = "map"
ValidPacket(p) ==
    /\ p.id # ""
    /\ IsInteger(p.timestamp) /\ p.timestamp.val >= 0
    /\ p.payload.tag = "map"

\* the caller's object after validatePacket: safeParse builds its result
\* apart and validatePacket drops it, the object passed in is not written
\* (faulty variant: the parsed copy, without the fields holding undefined,
\* is written back into the caller's object)
AfterValidateWrittenBack(p) ==
    [p EXCEPT !.payload.fields =
        [k \in {j \in DOMAIN @ : @[j] # "undef"} |-> @[k]]]
AfterValidate(p) == p

\* JSON.stringify(packet) throws a TypeError on a BigInt field
Serializable(p) ==
    \A k \in DOMAIN p.payload.fields : p.payload.fields[k] # "bigint"

\* The text JSON.stringify(packet) returns, as the JSON document it denotes:
\* a field holding undefined is left out, NaN is written as null.
\* (faulty variant of Stringify: only the payload is serialized)
StringifyPayloadOnly(p) ==
    [k \in {j \in DOMAIN p.payload.fields : p.payload.fields[j] # "undef"} |->
        IF p.payload.fields[k] = "nan" THEN "null" ELSE p.payload.fields[k]]
JsonFields(f) ==
    [k \in {j \in DOMAIN f : f[j] # "undef"} |-> IF f[k] = "nan" THEN "null" ELSE f[k]]
Stringify(p) ==
    [id |-> p.id, timestamp |-> p.timestamp.val, payload |-> JsonFields(p.payload.fields)]
NoText == [id |-> "", timestamp |-> 0, payload |-> << >>]

\* create(id, payload), now being what Date.now() returns
create(id, payload, now) == [id |-> id, timestamp |-> Num("int", now), payload |-> payload]

\* The caller's change to its packet object while send is suspended
CallerEdit(p) == [p EXCEPT !.id = "p2", !.timestamp = Num("int", p.timestamp.val + 1)]

----------------------------------------------------------------------------
(* The transport: responses and failures                                   *)

Statuses == {200, 299, 300, 404, 408, 425, 429, 500, 600}
\* content-type header: includes "application/json" or not
ContentTypes == {"json", "text"}
\* retry-after header: missing, or delta-seconds
NoHeader == [present |-> FALSE, secs |-> 0]
Secs(s) == [present |-> TRUE, secs |-> s]
RetryAfterHeaders == {NoHeader, Secs(0), Secs(2)}
\* response body on the wire: nothing, text that is no JSON, a JSON object,
\* a JSON value that is falsy in JavaScript (0, false, null, "")
RawBodies == {"empty", "text", "jsonObj", "jsonFalsy"}
NoRes == [ct |-> "text", retryAfter |-> NoHeader]
\* err.message of a failed network call
TransportMessages == {"ECONNREFUSED"}

\* res.ok
\* (faulty variant: redirects count as ok)
IsOkBelow400(status) == status >= 200 /\ status < 400
IsOk(status) == status >= 200 /\ status < 300

\* parseResponseBody.  streamOk: the body stream delivers the whole body;
\* rereadable: res.text() still works after res.json() failed (it depends on
\* the fetch implementation whether the consumed body can be read again).
\* ("echo": the body is the text of the request body, which is JSON)
JsonParses(raw) == raw \in {"jsonObj", "jsonFalsy", "echo"}
ParsedText(raw) == IF raw = "empty" THEN Undefined ELSE [type |-> "string", raw |-> raw]
\* (faulty variant: the `txt.length ? txt : undefined` test is missing, an
\* empty body comes back as the empty string)
parseResponseBodyKeepsEmpty(ct, raw, streamOk, rereadable) ==
    IF ct = "json" /\ streamOk /\ JsonParses(raw)
    THEN [type |-> "json", raw |-> raw]
    ELSE IF streamOk /\ (ct = "json" => rereadable)
         THEN [type |-> "string", raw |-> raw]
         ELSE Undefined
parseResponseBody(ct, raw, streamOk, rereadable) ==
    IF ct = "json" /\ streamOk /\ JsonParses(raw)
    THEN [type |-> "json", raw |-> raw]
    ELSE IF streamOk /\ (ct = "json" => rereadable)
         THEN ParsedText(raw)
         ELSE Undefined

\* JavaScript truthiness of a parsed body
Truthy(v) == v.type = "string" \/ (v.type = "json" /\ v.raw \in {"jsonObj", "echo"})

\* `HTTP ${res.status}${lastBody ? `: ${...}` : ""}`
HttpError(status, parsed) ==
    [type |-> "http", status |-> status,
     detail |-> IF Truthy(parsed) THEN parsed ELSE Undefined]
\* the catch clause's description of err
TimeoutError(ms) == [type |-> "timeout", ms |-> ms]
MessageError(m) == [type |-> "message", msg |-> m]
AbortError == [name |-> "AbortError", message |-> "The user aborted a request."]
FetchError(m) == [name |-> "FetchError", message |-> m]
\* (faulty variant: the AbortError is not told apart)
DescribeErrorByMessage(err, ms) == MessageError(err.message)
DescribeError(err, ms) ==
    IF err.name = "AbortError" THEN TimeoutError(ms) ELSE MessageError(err.message)

\* isRetryableStatus
\* (faulty variant: every status is retried)
isRetryableStatusAlways(status) == TRUE
isRetryableStatus(status) ==
    status = 408 \/ status = 425 \/ status = 429 \/ status >= 500

\* backoff: the delay it waits
\* (faulty variant: exponential growth, 2^n * 100 as in the older revision)
BackoffMsExponential(n, retryAfterHeader, delay) ==
    IF retryAfterHeader.present /\ retryAfterHeader.secs > 0
    THEN retryAfterHeader.secs * 1000
    ELSE (2 ^ n) * 100
BackoffMs(n, retryAfterHeader, delay) ==
    IF retryAfterHeader.present /\ retryAfterHeader.secs > 0
    THEN retryAfterHeader.secs * 1000
    ELSE delay * n

\* while (attempt <= this.retries)
LoopContinues(n, r) == n <= r
\* attempt > this.retries
\* (faulty variant: the budget test after a failed attempt is late by one, so
\* the last attempt is followed by a backoff before the loop ends)
ExhaustedLate(n, r) == n > r + 1
Exhausted(n, r) == n > r

----------------------------------------------------------------------------
(* Outcomes                                                                *)

NoResult == [success |-> FALSE, status |-> 0, responseBody |-> Undefined,
             error |-> Undefined, attempts |-> 0]
\* (faulty variant: attempts counted from 0)
SuccessResultZeroBased(status, parsed, n) ==
    [success |-> TRUE, status |-> status, responseBody |-> parsed,
     error |-> Undefined, attempts |-> n - 1]
SuccessResult(status, parsed, n) ==
    [success |-> TRUE, status |-> status, responseBody |-> parsed,
     error |-> Undefined, attempts |-> n]
\* (faulty variant: the failed outcome does not count its last attempt)
FailureResultZeroBased(status, parsed, err, n) ==
    [success |-> FALSE, status |-> status, responseBody |-> parsed,
     error |-> err, attempts |-> n - 1]
\* (faulty variant: the body of the last response is left out)
FailureResultNoBody(status, parsed, err, n) ==
    [success |-> FALSE, status |-> status, responseBody |-> Undefined,
     error |-> err, attempts |-> n]
FailureResult(status, parsed, err, n) ==
    [success |-> FALSE, status |-> status, responseBody |-> parsed,
     error |-> err, attempts |-> n]

\* body of the request fetchWithTimeout(initBody) sends
\* (faulty variant: the packet is serialized again for each attempt)
RequestBodyFresh(initBody, pkt) == Stringify(pkt)
RequestBody(initBody, pkt) == initBody

\* the request fetchWithTimeout hands to fetch
Request(url, hdrs) == [url |-> url, method |-> "POST", headers |-> hdrs]

\* the timer slot after the finally clause of fetchWithTimeout (clearTimeout)
\* (faulty variant: the timer is not cleared)
AfterSettleKept(armed) == armed
AfterSettle(armed) == FALSE

\* the open network calls after controller.abort() on attempt n's signal
\* (faulty variant: the signal is not passed to fetch, abort cancels nothing)
AfterAbortNoCancel(open, n) == open
AfterAbort(open, n) == open \ {n}

----------------------------------------------------------------------------
(* State after construction                                                *)

TypeOK ==
    /\ options \in [retries : RetriesOpts \cup AnyRetriesOpts,
                    timeoutMs : TimeoutOpts \cup AnyTimeoutOpts,
                    retryDelayMs : RetryDelayOpts \cup AnyRetryDelayOpts,
                    headers : HeaderOpts, userAgent : UserAgentOpts,
                    idempotencyKey : IdempotencyKeyOpts]
    /\ endpoint \in Endpoints
    /\ ctorError \in {"", "Endpoint URL is required", "Invalid endpoint URL"}
    /\ timerOwner \in Nat /\ focus \in {1, 2}
    /\ retries \in Nat /\ timeoutMs \in Nat /\ retryDelayMs \in Nat
    /\ pc \in {"idle", "fetching", "reading", "backoff", "done", "threw"}
    /\ attempt \in Nat /\ lastStatus \in Statuses \cup {0}
    /\ timerArmed \in BOOLEAN /\ inflight \subseteq Nat
    /\ requests \in Nat /\ waits \in Nat /\ mutated \in BOOLEAN
    /\ kinds \subseteq {"ok", "terminal", "retryable", "timeout", "transport"}

NoEvent == [type |-> "none", msg |-> ""]

\* the send call the variables show, as one value: its packet, its locals,
\* its timer and open network calls, and its history
Call ==
    [packet |-> packet, argument |-> argument, pc |-> pc, body |-> body,
     attempt |-> attempt,
     lastStatus |-> lastStatus, lastError |-> lastError, lastBody |-> lastBody,
     res |-> res, timerArmed |-> timerArmed, timerOwner |-> timerOwner,
     inflight |-> inflight, waitMs |-> waitMs, result |-> result,
     requests |-> requests, sentBodies |-> sentBodies, wire |-> wire,
     waits |-> waits, kinds |-> kinds, lastEvent |-> lastEvent,
     mutated |-> mutated]
\* a call that has not begun
IdleCall ==
    [packet |-> NoPacket, argument |-> NoPacket, pc |-> "idle", body |-> NoText,
     attempt |-> 0,
     lastStatus |-> 0, lastError |-> Undefined, lastBody |-> Undefined,
     res |-> NoRes, timerArmed |-> FALSE, timerOwner |-> 0,
     inflight |-> {}, waitMs |-> 0, result |-> NoResult,
     requests |-> 0, sentBodies |-> {}, wire |-> {},
     waits |-> 0, kinds |-> {}, lastEvent |-> NoEvent,
     mutated |-> FALSE]

\* body, attempt, lastStatus, lastError and lastBody are locals of send: a
\* call that resumes after an await reads its own value (own), whatever the
\* call that ran meanwhile left in its locals (peer)
\* (faulty variant: the value is kept in a field of the dispatcher, which
\* the two calls share)
OwnLocalShared(own, peer) == peer
OwnLocal(own, peer) == own

\* new SendPack(endpoint, options): the fields it sets, or what it throws
\* (then no field is set and no instance exists)
Constructor ==
    /\ ctorError = EndpointError(endpoint)
    /\ IF ctorError = ""
       THEN /\ retries = ResolveRetries(options.retries)
            /\ timeoutMs = ResolveTimeoutMs(options.timeoutMs)
            /\ retryDelayMs = ResolveRetryDelayMs(options.retryDelayMs)
            /\ idempotencyKey = options.idempotencyKey
            /\ headers = ResolveHeaders(options)
       ELSE /\ retries = 0 /\ timeoutMs = 0 /\ retryDelayMs = 0
            /\ idempotencyKey = "" /\ headers = NoHeaders

\* no send call in progress
NoCall ==
    /\ packet = NoPacket
    /\ argument = NoPacket
    /\ pc = "idle"
    /\ body = NoText
    /\ attempt = 0
    /\ lastStatus = 0
    /\ lastError = Undefined
    /\ lastBody = Undefined
    /\ res = NoRes
    /\ timerArmed = FALSE
    /\ timerOwner = 0
    /\ inflight = {}
    /\ waitMs = 0
    /\ result = NoResult
    /\ requests = 0
    /\ sentBodies = {}
    /\ wire = {}
    /\ waits = 0
    /\ kinds = {}
    /\ lastEvent = NoEvent
    /\ mutated = FALSE
    /\ focus = 1
    /\ parked = IdleCall

\* "http": Error(`HTTP ${res.status}: ...`), "abort": the AbortError of the
\* timer, "transport": fetch's own rejection, "syntax": the SyntaxError of
\* res.json(), "exhausted": Error("Failed to fetch after retries"); "none"
\* is no error
NxError(type, status) == [type |-> type, status |-> status]

\* how the call ended: "value" is the parsed body of the response
NxResult(kind, err) == [kind |-> kind, error |-> err]

\* no fetchWithTimeout call in progress
NxIdle ==
    /\ nxPc = "idle"
    /\ nxAttempt = 0
    /\ nxTimer = FALSE
    /\ nxWaitMs = 0
    /\ nxResult = NxResult("none", NxError("none", 0))
    /\ nxRequests = 0
    /\ nxWaits = 0
    /\ nxErrors = << >>

\* no symbol: a worker that has ended
NbNone == ""
\* no analyzeBatch call in progress
NbIdle ==
    /\ nbPc = "idle"
    /\ nbSymbols = << >>
    /\ nbQueue = << >>
    /\ nbResults = << >>
    /\ nbWorker = << >>
    /\ nbAnalysed = [sym \in {"BTC", "ETH", "SOL"} |-> 0]
    /\ nbFailed = {}

\* no model in memory, no load in flight, no caller in ensureModelLoaded
NaIdle ==
    /\ naModel = 0
    /\ naLoading = 0
    /\ naPromise = << >>
    /\ naCaller = [c \in NaCallers |-> [pc |-> "idle", on |-> 0, got |-> "none"]]

\* the tracker right after construction: no job, no event, no request yet
JtNoRequest == [method |-> "none", id |-> 0, body |-> ""]
JtNoResponse == [status |-> 0, error |-> ""]
JtIdle ==
    /\ jtJobs = << >>
    /\ jtEvents = << >>
    /\ jtRequest = JtNoRequest
    /\ jtResponse = JtNoResponse
    /\ jtRequests = 0

\* the other components of the repository stand by
Elsewhere ==
    /\ nxRetryCount = 2
    /\ NxIdle
    /\ nbConcurrency = 5
    /\ NbIdle
    /\ NaIdle
    /\ JtIdle

\* a dispatcher built on a valid endpoint with every numeric option of the
\* model and no extra headers
Init ==
    /\ endpoint = ValidEndpoint
    /\ options \in [retries : RetriesOpts, timeoutMs : TimeoutOpts,
                    retryDelayMs : RetryDelayOpts, headers : {NoHeaders},
                    userAgent : {""}, idempotencyKey : {""}]
    /\ Constructor
    /\ NoCall
    /\ Elsewhere

----------------------------------------------------------------------------
(* send                                                                    *)

\* attempt++ and the synchronous part of fetchWithTimeout(body): arm the
\* timer, hand the request to fetch.  n is the attempt's number, pkt the
\* packet object as it is now.
BeginAttempt(n, initBody, pkt) ==
    /\ pc' = "fetching"
    /\ attempt' = n
    /\ timerArmed' = TRUE
    /\ timerOwner' = n
    /\ inflight' = inflight \cup {n}
    /\ requests' = requests + 1
    /\ sentBodies' = sentBodies \cup {RequestBody(initBody, pkt)}
    /\ wire' = wire \cup {Request(endpoint, headers)}
    /\ res' = NoRes
    /\ waitMs' = 0

\* the return after the loop
ReturnFailure(status, parsed, err, n) ==
    /\ pc' = "done"
    /\ result' = FailureResult(status, parsed, err, n)

\* await this.backoff(attempt, retryAfterHeader): start the timer
StartBackoff(header) ==
    /\ pc' = "backoff"
    /\ waitMs' = BackoffMs(attempt, header, retryDelayMs)
    /\ waits' = waits + 1

\* send(packet) up to its first await, or to the throw that ends it
Send(p) ==
    /\ ctorError = ""
    /\ pc = "idle"
    /\ argument' = p
    /\ packet' = AfterValidate(p)
    /\ IF ~ValidPacket(p)
       THEN /\ pc' = "threw"
            /\ result' = [thrown |-> "Invalid packet"]
            /\ UNCHANGED <<body, attempt, lastStatus, lastError, lastBody, res,
                           timerArmed, timerOwner, inflight, waitMs, histVars>>
       ELSE IF ~Serializable(p)
       THEN /\ pc' = "threw"
            /\ result' = [thrown |-> "TypeError"]
            /\ UNCHANGED <<body, attempt, lastStatus, lastError, lastBody, res,
                           timerArmed, timerOwner, inflight, waitMs, histVars>>
       ELSE /\ body' = Stringify(p)
            /\ lastStatus' = 0
            /\ lastError' = Undefined
            /\ lastBody' = Undefined
            /\ IF LoopContinues(0, retries)
               THEN /\ BeginAttempt(1, Stringify(p), p)
                    /\ UNCHANGED result
               ELSE /\ ReturnFailure(0, Undefined, Undefined, 0)
                    /\ UNCHANGED <<attempt, res, timerArmed, timerOwner,
                                   inflight, waitMs, requests, sentBodies, wire>>
            /\ UNCHANGED <<waits, kinds, lastEvent, mutated>>
    /\ UNCHANGED <<cfgVars, peerVars, otherVars>>

\* the catch clause of the loop, entered with err
Catch(err) ==
    /\ lastError' = DescribeError(err, timeoutMs)
    /\ IF Exhausted(attempt, retries)
       THEN /\ ReturnFailure(lastStatus, lastBody, DescribeError(err, timeoutMs), attempt)
            /\ UNCHANGED <<waitMs, waits>>
       ELSE /\ StartBackoff(NoHeader)
            /\ UNCHANGED result
    /\ UNCHANGED <<cfgVars, peerVars, otherVars, packet, argument, body, attempt,
                   lastStatus, lastBody, res, requests, sentBodies, wire,
                   mutated>>

\* the network call fails (DNS, connection refused, ...): finally clears the
\* timer, the rejection lands in the catch clause
FetchFails(m) ==
    /\ pc = "fetching"
    /\ timerArmed' = AfterSettle(timerArmed)
    /\ timerOwner' = timerOwner
    /\ inflight' = inflight \ {attempt}
    /\ kinds' = kinds \cup {"transport"}
    /\ lastEvent' = [type |-> "fail", msg |-> m]
    /\ Catch(FetchError(m))

\* the timer of fetchWithTimeout fires: controller.abort() cancels the call
\* that was given this controller's signal, and that fetch rejects with an
\* AbortError; aborting a call that has settled already changes nothing
TimerFires ==
    /\ timerArmed
    /\ timerArmed' = FALSE
    /\ timerOwner' = timerOwner
    /\ IF pc = "fetching" /\ timerOwner = attempt
       THEN /\ inflight' = AfterAbort(inflight, timerOwner)
            /\ kinds' = kinds \cup {"timeout"}
            /\ lastEvent' = [type |-> "timeout", msg |-> ""]
            /\ Catch(AbortError)
       ELSE UNCHANGED <<cfgVars, peerVars, otherVars, packet, argument, pc, body, attempt,
                        lastStatus, lastError, lastBody, res, inflight, waitMs,
                        result, histVars>>

\* fetch resolves with a response (status line and headers): finally clears
\* the timer, send records the status and starts reading the body
FetchResolves(status, ct, retryAfter) ==
    /\ pc = "fetching"
    /\ timerArmed' = AfterSettle(timerArmed)
    /\ timerOwner' = timerOwner
    /\ lastStatus' = status
    /\ res' = [ct |-> ct, retryAfter |-> retryAfter]
    /\ pc' = "reading"
    /\ lastEvent' = [type |-> "response", msg |-> ""]
    /\ UNCHANGED <<cfgVars, peerVars, otherVars, packet, argument, body, attempt, lastError,
                   lastBody, inflight, waitMs, result, requests, sentBodies,
                   wire, waits, kinds, mutated>>

\* parseResponseBody settles; send classifies the response
BodyRead(raw, streamOk, rereadable) ==
    /\ pc = "reading"
    /\ LET parsed == parseResponseBody(res.ct, raw, streamOk, rereadable)
           status == lastStatus
       IN  /\ lastBody' = parsed
           /\ inflight' = inflight \ {attempt}
           /\ IF IsOk(status)
              THEN /\ pc' = "done"
                   /\ result' = SuccessResult(status, parsed, attempt)
                   /\ kinds' = kinds \cup {"ok"}
                   /\ UNCHANGED <<lastError, waitMs, waits>>
              ELSE /\ lastError' = HttpError(status, parsed)
                   /\ IF ~isRetryableStatus(status) \/ Exhausted(attempt, retries)
                      THEN /\ ReturnFailure(status, parsed, HttpError(status, parsed),
                                            attempt)
                           /\ UNCHANGED <<waitMs, waits>>
                      ELSE /\ StartBackoff(res.retryAfter)
                           /\ UNCHANGED result
                   /\ kinds' = kinds \cup {IF isRetryableStatus(status)
                                           THEN "retryable" ELSE "terminal"}
    /\ UNCHANGED <<cfgVars, peerVars, otherVars, packet, argument, body, attempt,
                   lastStatus, res, timerArmed, timerOwner, requests, sentBodies,
                   wire, lastEvent, mutated>>

\* the backoff timer fires: the loop tests its condition and goes round
BackoffElapsed ==
    /\ pc = "backoff"
    /\ IF LoopContinues(attempt, retries)
       THEN /\ BeginAttempt(attempt + 1, body, packet)
            /\ UNCHANGED result
       ELSE /\ ReturnFailure(lastStatus, lastBody, lastError, attempt)
            /\ UNCHANGED <<attempt, res, timerArmed, timerOwner, inflight,
                           waitMs, requests, sentBodies, wire>>
    /\ UNCHANGED <<cfgVars, peerVars, otherVars, packet, argument, body, lastStatus,
                   lastError, lastBody, waits, kinds, lastEvent, mutated>>

----------------------------------------------------------------------------
(* The caller                                                              *)

\* the caller changes its packet object while send is suspended
Mutate ==
    /\ pc \in {"fetching", "reading", "backoff"}
    /\ ~mutated
    /\ packet' = CallerEdit(packet)
    /\ mutated' = TRUE
    /\ UNCHANGED argument
    /\ UNCHANGED <<cfgVars, peerVars, otherVars, callVars, requests, sentBodies, wire,
                   waits, kinds, lastEvent>>

\* the caller takes the outcome; the dispatcher is ready for the next send
Return ==
    /\ pc \in {"done", "threw"}
    /\ pc' = "idle"
    /\ packet' = NoPacket
    /\ argument' = NoPacket
    /\ body' = NoText
    /\ attempt' = 0
    /\ lastStatus' = 0
    /\ lastError' = Undefined
    /\ lastBody' = Undefined
    /\ res' = NoRes
    /\ timerArmed' = FALSE
    /\ timerOwner' = 0
    /\ inflight' = {}
    /\ waitMs' = 0
    /\ result' = NoResult
    /\ requests' = 0
    /\ sentBodies' = {}
    /\ wire' = {}
    /\ waits' = 0
    /\ kinds' = {}
    /\ lastEvent' = NoEvent
    /\ mutated' = FALSE
    /\ UNCHANGED <<cfgVars, peerVars, otherVars>>

Next ==
    \/ \E p \in Packets : Send(p)
    \/ \E m \in TransportMessages : FetchFails(m)
    \/ TimerFires
    \/ \E s \in Statuses, ct \in ContentTypes, ra \in RetryAfterHeaders :
          FetchResolves(s, ct, ra)
    \/ \E raw \in RawBodies, streamOk \in BOOLEAN, rereadable \in BOOLEAN :
          BodyRead(raw, streamOk, rereadable)
    \/ BackoffElapsed
    \/ Mutate
    \/ Return

Spec == Init /\ [][Next]_vars

----------------------------------------------------------------------------
(* Construction with every endpoint and header option, a small transport   *)

\* one valid packet and one the schema refuses
WirePackets ==
    {p \in Packets : p.timestamp = Num("int", 7) /\ p.payload = Mapping([a |-> "one"])}
WireStatuses == {200, 500}

\* new SendPack(endpoint, options) for every endpoint and every combination
\* of headers, userAgent and idempotencyKey; one retry
InitWire ==
    /\ endpoint \in Endpoints
    /\ options \in [retries : {Num("int", 1)}, timeoutMs : {Num("int", 50)},
                    retryDelayMs : {Num("int", 100)}, headers : HeaderOpts,
                    userAgent : UserAgentOpts, idempotencyKey : IdempotencyKeyOpts]
    /\ Constructor
    /\ NoCall
    /\ Elsewhere

NextWire ==
    \/ \E p \in WirePackets : Send(p)
    \/ \E m \in TransportMessages : FetchFails(m)
    \/ TimerFires
    \/ \E s \in WireStatuses : FetchResolves(s, "json", NoHeader)
    \/ BodyRead("jsonObj", TRUE, TRUE)
    \/ BackoffElapsed
    \/ Return

SpecWire == InitWire /\ [][NextWire]_vars

----------------------------------------------------------------------------
(* Construction with numeric options of every kind                         *)

InitAnyOptions ==
    /\ endpoint = ValidEndpoint
    /\ options \in [retries : AnyRetriesOpts, timeoutMs : AnyTimeoutOpts,
                    retryDelayMs : AnyRetryDelayOpts, headers : {NoHeaders},
                    userAgent : {""}, idempotencyKey : {""}]
    /\ Constructor
    /\ NoCall
    /\ Elsewhere

SpecAnyOptions == InitAnyOptions /\ [][NextWire]_vars

----------------------------------------------------------------------------
(* Progress                                                                *)

\* the open network call of fetchWithTimeout settles: a response arrives,
\* the call fails, or the timer aborts it
NetworkCallSettles ==
    \/ \E s \in WireStatuses : FetchResolves(s, "json", NoHeader)
    \/ \E m \in TransportMessages : FetchFails(m)
    \/ TimerFires

\* What the runtime and the transport guarantee: a pending setTimeout fires
\* (the abort timer of a network call, the timer of backoff) and so every
\* network call settles.  Nothing bounds the read of a response body: its
\* timer was cleared when the response arrived (finally of fetchWithTimeout).
SpecLive ==
    /\ Init
    /\ [][NextWire]_vars
    /\ WF_vars(NetworkCallSettles)
    /\ WF_vars(BackoffElapsed)

----------------------------------------------------------------------------
(* Two concurrent send calls on one dispatcher                             *)

\* The event loop runs the other call: the call shown is suspended (or has
\* not begun, or has returned) and the other one continues where it stood.
Switch ==
    /\ ctorError = ""
    /\ focus' = 3 - focus
    /\ parked' = Call
    /\ packet' = parked.packet
    /\ argument' = parked.argument
    /\ pc' = parked.pc
    /\ body' = OwnLocal(parked.body, body)
    /\ attempt' = OwnLocal(parked.attempt, attempt)
    /\ lastStatus' = OwnLocal(parked.lastStatus, lastStatus)
    /\ lastError' = OwnLocal(parked.lastError, lastError)
    /\ lastBody' = OwnLocal(parked.lastBody, lastBody)
    /\ res' = parked.res
    /\ timerArmed' = parked.timerArmed
    /\ timerOwner' = parked.timerOwner
    /\ inflight' = parked.inflight
    /\ waitMs' = parked.waitMs
    /\ result' = parked.result
    /\ requests' = parked.requests
    /\ sentBodies' = parked.sentBodies
    /\ wire' = parked.wire
    /\ waits' = parked.waits
    /\ kinds' = parked.kinds
    /\ lastEvent' = parked.lastEvent
    /\ mutated' = parked.mutated
    /\ UNCHANGED <<cfgVars, otherVars>>

\* packets of the two calls: two ids (one refused), two payloads
PairPackets ==
    {p \in Packets : /\ p.timestamp = Num("int", 7)
                     /\ p.payload \in {Mapping([a |-> "one"]), Mapping([a |-> "undef"])}}
PairStatuses == {200, 404, 500}

\* a dispatcher with one retry
InitPair ==
    /\ endpoint = ValidEndpoint
    /\ options = [retries |-> Num("int", 1), timeoutMs |-> Num("int", 50),
                  retryDelayMs |-> Num("int", 100), headers |-> NoHeaders,
                  userAgent |-> "", idempotencyKey |-> "k1"]
    /\ Constructor
    /\ NoCall
    /\ Elsewhere

NextPair ==
    \/ \E p \in PairPackets : Send(p)
    \/ \E m \in TransportMessages : FetchFails(m)
    \/ TimerFires
    \/ \E s \in PairStatuses : FetchResolves(s, "json", NoHeader)
    \/ BodyRead("jsonObj", TRUE, TRUE)
    \/ BackoffElapsed
    \/ Return
    \/ Switch

SpecPair == InitPair /\ [][NextPair]_vars

----------------------------------------------------------------------------
(* NodexEngine.fetchWithTimeout (src/framekit/nodex/nodexApi.ts)           *)

\* this.retryCount: the number of retries, a non-negative integer (the
\* constructor keeps what it is given, 2 when nothing is given)
NxRetryCounts == 0 .. MaxRetryCount
NxStatuses == {200, 404, 500}

\* what fetchWithTimeout throws or catches
\* attempt === this.retryCount
\* (faulty variant: the test is late by one, the last failure is followed by
\* a backoff and the loop then runs out)
NxIsLastAttemptLate(a, r) == a = r + 1
NxIsLastAttempt(a, r) == a = r
\* 100 * (attempt + 1)
NxBackoffMs(a) == 100 * (a + 1)

\* the loop test for attempt a, then the synchronous part of the body: a new
\* controller and timer, the request handed to fetch; when the test fails
\* the statement after the loop throws
NxLoop(a) ==
    /\ nxAttempt' = a
    /\ IF a <= nxRetryCount
       THEN /\ nxPc' = "fetching"
            /\ nxTimer' = TRUE
            /\ nxRequests' = nxRequests + 1
            /\ UNCHANGED nxResult
       ELSE /\ nxPc' = "rejected"
            /\ nxResult' = NxResult("error", NxError("exhausted", 0))
            /\ UNCHANGED <<nxTimer, nxRequests>>

\* the catch clause: clearTimeout, rethrow on the last attempt, else back off
NxCatch(err) ==
    /\ nxTimer' = FALSE
    /\ nxErrors' = Append(nxErrors, err)
    /\ IF NxIsLastAttempt(nxAttempt, nxRetryCount)
       THEN /\ nxPc' = "rejected"
            /\ nxResult' = NxResult("error", err)
            /\ UNCHANGED <<nxWaitMs, nxWaits>>
       ELSE /\ nxPc' = "backoff"
            /\ nxWaitMs' = NxBackoffMs(nxAttempt)
            /\ nxWaits' = nxWaits + 1
            /\ UNCHANGED nxResult
    /\ UNCHANGED <<nxRetryCount, nxAttempt, nxRequests, notNxVars>>

\* fetchWithTimeout(url) is called
NxCall ==
    /\ nxPc = "idle"
    /\ NxLoop(0)
    /\ UNCHANGED <<nxRetryCount, nxWaitMs, nxWaits, nxErrors, notNxVars>>

\* fetch resolves with a response: clearTimeout, then the res.ok test
NxFetchResolves(status) ==
    /\ nxPc = "fetching"
    /\ IF IsOk(status)
       THEN /\ nxPc' = "reading"
            /\ nxTimer' = FALSE
            /\ UNCHANGED <<nxRetryCount, nxAttempt, nxWaitMs, nxResult, nxRequests,
                           nxWaits, nxErrors, notNxVars>>
       ELSE NxCatch(NxError("http", status))

\* res.json() settles: the parsed body is returned, or the SyntaxError of a
\* body that is no JSON lands in the catch clause
NxBodyRead(parses) ==
    /\ nxPc = "reading"
    /\ IF parses
       THEN /\ nxPc' = "returned"
            /\ nxResult' = NxResult("value", NxError("none", 0))
            /\ UNCHANGED <<nxRetryCount, nxAttempt, nxTimer, nxWaitMs, nxRequests,
                           nxWaits, nxErrors, notNxVars>>
       ELSE NxCatch(NxError("syntax", 0))

\* fetch rejects (DNS, connection refused, ...)
NxFetchFails ==
    /\ nxPc = "fetching"
    /\ NxCatch(NxError("transport", 0))

\* the timer fires: controller.abort(), fetch rejects with an AbortError
NxTimerFires ==
    /\ nxPc = "fetching"
    /\ nxTimer
    /\ NxCatch(NxError("abort", 0))

\* the backoff timer fires: attempt++ and the loop test
NxBackoffElapsed ==
    /\ nxPc = "backoff"
    /\ NxLoop(nxAttempt + 1)
    /\ nxWaitMs' = 0
    /\ UNCHANGED <<nxRetryCount, nxWaits, nxErrors, notNxVars>>

\* the caller has the result; the engine serves the next call
NxDone ==
    /\ nxPc \in {"returned", "rejected"}
    /\ nxPc' = "idle"
    /\ nxAttempt' = 0
    /\ nxTimer' = FALSE
    /\ nxWaitMs' = 0
    /\ nxResult' = NxResult("none", NxError("none", 0))
    /\ nxRequests' = 0
    /\ nxWaits' = 0
    /\ nxErrors' = << >>
    /\ UNCHANGED <<nxRetryCount, notNxVars>>

\* the SendPack dispatcher stands by, built with its defaults
SendPackIdle ==
    /\ endpoint = ValidEndpoint
    /\ options = [retries |-> UndefinedNum, timeoutMs |-> UndefinedNum,
                  retryDelayMs |-> UndefinedNum, headers |-> NoHeaders,
                  userAgent |-> "", idempotencyKey |-> ""]
    /\ Constructor
    /\ NoCall

InitNodexFetch ==
    /\ SendPackIdle
    /\ nxRetryCount \in NxRetryCounts
    /\ NxIdle
    /\ nbConcurrency = 5
    /\ NbIdle
    /\ NaIdle
    /\ JtIdle

NextNodexFetch ==
    \/ NxCall
    \/ \E status \in NxStatuses : NxFetchResolves(status)
    \/ \E parses \in BOOLEAN : NxBodyRead(parses)
    \/ NxFetchFails
    \/ NxTimerFires
    \/ NxBackoffElapsed
    \/ NxDone

SpecNodexFetch == InitNodexFetch /\ [][NextNodexFetch]_vars

----------------------------------------------------------------------------
(* NodexEngine.analyzeBatch (src/framekit/nodex/nodexApi.ts)               *)

\* this.concurrency as given to the constructor (kept without validation)
NbConcurrencies == 0 .. MaxConcurrency
\* the symbols argument: lists of distinct symbols
NbSymbolLists ==
    {s \in UNION {[1..n -> {"BTC", "ETH", "SOL"}] : n \in 0..MaxSymbols} :
        \A i, j \in DOMAIN s : s[i] = s[j] => i = j}

\* a worker's loop test and what follows: queue.shift() and the start of
\* analyze(sym), or the end of the worker (NbNone) on an empty queue
NbTake(queue) == IF Len(queue) > 0 THEN Head(queue) ELSE NbNone
NbRest(queue) == IF Len(queue) > 0 THEN Tail(queue) ELSE queue
NbStarted(counts, sym) ==
    IF sym = NbNone THEN counts ELSE [counts EXCEPT ![sym] = @ + 1]

\* analyzeBatch(symbols): results and queue are set up, and Array.from runs
\* worker() this.concurrency times, each up to its first await
NbCall(symbols) ==
    /\ nbPc = "idle"
    /\ nbPc' = "running"
    /\ nbSymbols' = symbols
    /\ nbResults' = << >>
    /\ nbWorker' = [w \in 1..nbConcurrency |->
                       IF w <= Len(symbols) THEN symbols[w] ELSE NbNone]
    /\ nbQueue' = SubSeq(symbols, nbConcurrency + 1, Len(symbols))
    /\ nbAnalysed' = [sym \in {"BTC", "ETH", "SOL"} |->
                        IF \E w \in 1..nbConcurrency :
                              w <= Len(symbols) /\ symbols[w] = sym
                        THEN 1 ELSE 0]
    /\ nbFailed' = {}
    /\ UNCHANGED <<nbConcurrency, notNbVars>>

\* the analysis worker w awaits settles: its metrics are pushed, or its
\* failure is logged; then the worker's loop goes round
NbSettle(w, ok) ==
    /\ nbPc = "running"
    /\ w \in DOMAIN nbWorker
    /\ nbWorker[w] # NbNone
    /\ nbResults' = IF ok THEN Append(nbResults, nbWorker[w]) ELSE nbResults
    /\ nbFailed' = IF ok THEN nbFailed ELSE nbFailed \cup {nbWorker[w]}
    /\ nbWorker' = [nbWorker EXCEPT ![w] = NbTake(nbQueue)]
    /\ nbQueue' = NbRest(nbQueue)
    /\ nbAnalysed' = NbStarted(nbAnalysed, NbTake(nbQueue))
    /\ UNCHANGED <<nbConcurrency, nbPc, nbSymbols, notNbVars>>

\* every worker has ended: Promise.all resolves, results is returned
NbReturn ==
    /\ nbPc = "running"
    /\ \A w \in DOMAIN nbWorker : nbWorker[w] = NbNone
    /\ nbPc' = "returned"
    /\ UNCHANGED <<nbConcurrency, nbSymbols, nbQueue, nbResults, nbWorker,
                   nbAnalysed, nbFailed, notNbVars>>

\* the caller has the list; the engine serves the next batch
NbDone ==
    /\ nbPc = "returned"
    /\ nbPc' = "idle"
    /\ nbSymbols' = << >>
    /\ nbQueue' = << >>
    /\ nbResults' = << >>
    /\ nbWorker' = << >>
    /\ nbAnalysed' = [sym \in {"BTC", "ETH", "SOL"} |-> 0]
    /\ nbFailed' = {}
    /\ UNCHANGED <<nbConcurrency, notNbVars>>

InitNodexBatch ==
    /\ SendPackIdle
    /\ nxRetryCount = 2
    /\ NxIdle
    /\ nbConcurrency \in NbConcurrencies
    /\ NbIdle
    /\ NaIdle
    /\ JtIdle

NextNodexBatch ==
    \/ \E symbols \in NbSymbolLists : NbCall(symbols)
    \/ \E w \in 1..MaxConcurrency, ok \in BOOLEAN : NbSettle(w, ok)
    \/ NbReturn
    \/ NbDone

SpecNodexBatch == InitNodexBatch /\ [][NextNodexBatch]_vars

----------------------------------------------------------------------------
(* NeuroAgent.ensureModelLoaded (src/unnamed/part_005)                     *)

\* this.loadingPromise after the finally clause of the load
\* (faulty variant: the marker is not cleared)
NaAfterFinallyKept(p) == p
NaAfterFinally(p) == 0

\* caller c calls ensureModelLoaded: it gets the model in memory, or the
\* promise of the load in flight, or it starts a load (the loads are
\* numbered; a model is named by the load that produced it) and gets that
\* load's promise
NaCall(c) ==
    /\ naCaller[c].pc = "idle"
    /\ IF naModel # 0
       THEN /\ naCaller' = [naCaller EXCEPT ![c] =
                               [pc |-> "got", on |-> naModel, got |-> "ok"]]
            /\ UNCHANGED <<naLoading, naPromise>>
       ELSE IF naLoading # 0
       THEN /\ naCaller' = [naCaller EXCEPT ![c] =
                               [pc |-> "waiting", on |-> naLoading, got |-> "none"]]
            /\ UNCHANGED <<naLoading, naPromise>>
       ELSE /\ Len(naPromise) < MaxLoads
            /\ naPromise' = Append(naPromise, "pending")
            /\ naLoading' = Len(naPromise) + 1
            /\ naCaller' = [naCaller EXCEPT ![c] =
                               [pc |-> "waiting", on |-> Len(naPromise) + 1,
                                got |-> "none"]]
    /\ UNCHANGED <<naModel, notNaVars>>

\* tf.loadLayersModel of load l settles and the load resumes: the model is
\* kept (or the error wrapped and thrown), then finally clears the marker
NaLoadSettles(l, ok) ==
    /\ l \in DOMAIN naPromise
    /\ naPromise[l] = "pending"
    /\ naPromise' = [naPromise EXCEPT ![l] = IF ok THEN "ok" ELSE "failed"]
    /\ naModel' = IF ok THEN l ELSE naModel
    /\ naLoading' = NaAfterFinally(naLoading)
    /\ UNCHANGED <<naCaller, notNaVars>>

\* the promise caller c awaits has settled: c has its result
NaResume(c) ==
    /\ naCaller[c].pc = "waiting"
    /\ naPromise[naCaller[c].on] # "pending"
    /\ naCaller' = [naCaller EXCEPT ![c].pc = "got",
                                    ![c].got = naPromise[naCaller[c].on]]
    /\ UNCHANGED <<naModel, naLoading, naPromise, notNaVars>>

\* caller c is done with the result
NaReturn(c) ==
    /\ naCaller[c].pc = "got"
    /\ naCaller' = [naCaller EXCEPT ![c] = [pc |-> "idle", on |-> 0, got |-> "none"]]
    /\ UNCHANGED <<naModel, naLoading, naPromise, notNaVars>>

InitNeuro ==
    /\ SendPackIdle
    /\ Elsewhere

NextNeuro ==
    \/ \E c \in NaCallers : NaCall(c)
    \/ \E l \in 1..MaxLoads, ok \in BOOLEAN : NaLoadSettles(l, ok)
    \/ \E c \in NaCallers : NaResume(c)
    \/ \E c \in NaCallers : NaReturn(c)

SpecNeuro == InitNeuro /\ [][NextNeuro]_vars

----------------------------------------------------------------------------
(* JobTracker and its HTTP API (src/jobtracker)                            *)

\* the statuses updateJobSchema accepts
STATUSES == {"pending", "in_progress", "completed"}

\* the ids a request may name: those of the jobs there can be, and one more
\* (uuidv4 is modelled by numbering the jobs in the order of creation)
JtRequestIds == 1 .. MaxJobs + 1
JtBodies == STATUSES \cup {"bogus"}
JtTitles == {"", "build"}

\* the error handler: what a thrown error is answered with
JtErrorHandler(err) ==
    IF err = "ZodError"
    THEN [status |-> 400, error |-> "validation"]
    ELSE IF err = "SyntaxError"
    THEN [status |-> 400, error |-> "Invalid JSON payload"]
    ELSE [status |-> 500, error |-> "Internal server error"]

\* JobTracker.update throws for an id it does not hold
JtUpdateThrows(id) == id \notin DOMAIN jtJobs

\* POST /jobs: the title is validated, the job created and announced
JtPost(title) ==
    /\ jtRequests < MaxRequests
    /\ jtRequests' = jtRequests + 1
    /\ jtRequest' = [method |-> "POST", id |-> 0, body |-> title]
    /\ IF title = ""
       THEN /\ jtResponse' = JtErrorHandler("ZodError")
            /\ UNCHANGED <<jtJobs, jtEvents>>
       ELSE /\ Len(jtJobs) < MaxJobs
            /\ jtJobs' = Append(jtJobs, [title |-> title, status |-> "pending"])
            /\ jtEvents' = Append(jtEvents,
                              [type |-> "jobCreated", id |-> Len(jtJobs) + 1])
            /\ jtResponse' = [status |-> 201, error |-> ""]
    /\ UNCHANGED notJtVars

\* GET /jobs/:id
JtGet(id) ==
    /\ jtRequests < MaxRequests
    /\ jtRequests' = jtRequests + 1
    /\ jtRequest' = [method |-> "GET", id |-> id, body |-> ""]
    /\ jtResponse' = IF id \in DOMAIN jtJobs
                     THEN [status |-> 200, error |-> ""]
                     ELSE [status |-> 404, error |-> "job not found"]
    /\ UNCHANGED <<jtJobs, jtEvents, notJtVars>>

\* PATCH /jobs/:id with the body { status }: the body is validated, then
\* tracker.updateStatus either throws (the error goes to the error handler)
\* or stores the status and emits jobUpdated
JtPatch(id, status) ==
    /\ jtRequests < MaxRequests
    /\ jtRequests' = jtRequests + 1
    /\ jtRequest' = [method |-> "PATCH", id |-> id, body |-> status]
    /\ IF status \notin STATUSES
       THEN /\ jtResponse' = JtErrorHandler("ZodError")
            /\ UNCHANGED <<jtJobs, jtEvents>>
       ELSE IF JtUpdateThrows(id)
       THEN /\ jtResponse' = JtErrorHandler("Error")
            /\ UNCHANGED <<jtJobs, jtEvents>>
       ELSE /\ jtJobs' = [jtJobs EXCEPT ![id].status = status]
            /\ jtEvents' = Append(jtEvents, [type |-> "jobUpdated", id |-> id])
            /\ jtResponse' = [status |-> 200, error |-> ""]
    /\ UNCHANGED notJtVars

InitJobs ==
    /\ SendPackIdle
    /\ Elsewhere

NextJobs ==
    \/ \E title \in JtTitles : JtPost(title)
    \/ \E id \in JtRequestIds : JtGet(id)
    \/ \E id \in JtRequestIds, status \in JtBodies : JtPatch(id, status)

SpecJobs == InitJobs /\ [][NextJobs]_vars

----------------------------------------------------------------------------
(* create followed by send, against a transport that echoes the request    *)

\* payloads for create: a number, undefined, a BigInt or NaN in the field
EchoPayloads == {Mapping(f) : f \in [PayloadKeys -> PayloadVals \cup {"nan"}]}
\* values of Date.now()
Clock == {0, 7}
EchoStatuses == {200, 299}

\* the JSON document a parsed response body is, sent being the request body
\* the transport received
JsonValue(parsed, sent) ==
    IF parsed.type = "json" /\ parsed.raw = "echo" THEN sent ELSE parsed

NextEcho ==
    \/ \E id \in Ids, payload \in EchoPayloads, now \in Clock :
          Send(create(id, payload, now))
    \/ \E status \in EchoStatuses : FetchResolves(status, "json", NoHeader)
    \/ BodyRead("echo", TRUE, TRUE)
    \/ Return

SpecEcho == Init /\ [][NextEcho]_vars

----------------------------------------------------------------------------
(* Properties                                                              *)

\* C1: every SendResult that send returns has 1 <= attempts <= retries + 1,
\* where retries is the option given at construction when that is a
\* non-negative integer and the default 2 otherwise.
C1_AttemptsWithinBudget ==
    LET given == options.retries
        budget == IF given.kind = "int" /\ given.val >= 0 THEN given.val ELSE 2
    IN  pc = "done" => 1 <= result.attempts /\ result.attempts <= budget + 1

\* C1 witness: constructed with the invalid retries -1, a call used the whole
\* default budget of 3 attempts.
C1_Witness ==
    pc = "done" /\ options.retries.val = -1 /\ result.attempts = 3

\* C2: an outcome with success = true has a status in 200..299 and no error
\* description, and it comes from the response the latest attempt received,
\* never from a transport failure or a non-2xx response.
C2_SuccessIs2xx ==
    pc = "done" /\ result.success =>
        /\ result.status \in 200..299
        /\ result.error = Undefined
        /\ lastEvent.type = "response"
        /\ lastStatus = result.status

\* C2 witness: a success outcome at the upper edge of the 2xx range.
C2_Witness ==
    pc = "done" /\ result.success /\ result.status = 299

\* C3: a send whose packet has an empty id, a timestamp that is no
\* non-negative integer, or a payload that is no mapping ends in the
\* validation error at once, with no network call, no backoff wait and no
\* attempt; and nothing is retried after it.
C3_InvalidPacketRejected ==
    [][ /\ ( /\ pc = "idle" /\ pc' # "idle"
             /\ \/ packet'.id = ""
                \/ ~(packet'.timestamp.kind = "int" /\ packet'.timestamp.val >= 0)
                \/ packet'.payload.tag # "map" )
           => ( /\ pc' = "threw"
                /\ result'.thrown = "Invalid packet"
                /\ requests' = 0 /\ waits' = 0 /\ attempt' = 0 /\ inflight' = {} )
        /\ pc = "threw"
           => ( /\ pc' \in {"threw", "idle"}
                /\ requests' = 0 /\ waits' = 0 /\ inflight' = {} )
      ]_vars

\* C3 witness: a packet with an empty id was rejected.
C3_Witness ==
    pc = "threw" /\ result.thrown = "Invalid packet" /\ packet.id = "" /\ requests = 0

C5_RetryableExhausts ==
    pc = "done" /\ kinds = {"retryable"} =>
        /\ result.attempts = retries + 1
        /\ requests = retries + 1
        /\ ~result.success
        /\ result.status = lastStatus
        /\ result.error.type = "http"
        /\ result.error.status = result.status
        /\ result.responseBody # Undefined => result.error.detail = result.responseBody

\* C6: the attempt that receives a 2xx response ends the call: success, that
\* status, that response's parsed body, attempts equal to the number of the
\* attempt, and no further network call or backoff wait.
C6_SuccessShortCircuits ==
    [][ /\ ( /\ pc = "reading" /\ pc' # "reading"
             /\ lastStatus \in 200..299 )
           => ( /\ pc' = "done"
                /\ result'.success
                /\ result'.status = lastStatus
                /\ result'.responseBody = lastBody'
                /\ result'.attempts = attempt
                /\ result'.attempts = requests
                /\ requests' = requests /\ waits' = waits /\ inflight' = {} )
        /\ pc = "done" => pc' \in {"done", "idle"}
      ]_vars

\* C6 witness: two timeouts, then a 2xx response on the third attempt.
C6_Witness ==
    /\ pc = "done" /\ result.success /\ result.attempts = 3
    /\ kinds = {"timeout", "ok"} /\ waits = 2

\* C7: when every attempt ended in a transport failure or a timeout, send
\* made exactly retries + 1 attempts and returns a failure with status 0 and
\* the text of the last failure: 'Timeout after <timeoutMs>ms' for the
\* timeout, the transport's message otherwise.
C7_TransportFailuresExhaust ==
    pc = "done" /\ kinds # {} /\ kinds \subseteq {"timeout", "transport"} =>
        /\ result.attempts = retries + 1
        /\ requests = retries + 1
        /\ ~result.success
        /\ result.status = 0
        /\ result.error = IF lastEvent.type = "timeout"
                          THEN [type |-> "timeout", ms |-> timeoutMs]
                          ELSE [type |-> "message", msg |-> lastEvent.msg]

\* C7 witness: three failed attempts of both sorts, the last one a timeout.
C7_Witness ==
    /\ pc = "done" /\ kinds = {"timeout", "transport"}
    /\ lastEvent.type = "timeout" /\ result.attempts = 3

\* C8: send rejects with nothing but the packet validation error.
C8_OnlyValidationThrows ==
    pc = "threw" => result.thrown = "Invalid packet"

\* C9: every request of a call carries the body serialized at the start of
\* the call, whatever the caller does to the packet object in between.
C9_SameBodyEveryAttempt ==
    \A b \in sentBodies :
        /\ b = body
        /\ b.id # "p2"
        /\ ~mutated => b.id = packet.id /\ b.timestamp = packet.timestamp.val

\* C9 witness: a retry was sent after the caller had changed the packet.
C9_Witness ==
    pc = "fetching" /\ mutated /\ requests >= 2 /\ body.id # packet.id

\* C10: at most one network call of a send is open at any time, and a new
\* request is issued only when none is open and the call is at its start or
\* its backoff wait has elapsed.
C10_OneRequestInFlight ==
    [][ /\ Cardinality(inflight') <= 1
        /\ pc' \in {"fetching", "reading"} => inflight' = {attempt'}
        /\ pc' \in {"idle", "backoff", "done", "threw"} => inflight' = {}
        /\ requests' > requests => inflight = {} /\ pc \in {"idle", "backoff"}
      ]_vars

\* C10 witness: the second attempt's request is open, alone.
C10_Witness ==
    pc = "fetching" /\ attempt = 2 /\ inflight = {2} /\ waits = 1

\* C11: the wait before the retry that follows failed attempt n is
\* retryDelayMs * n (the delay given at construction, or 300 when that is
\* invalid) whenever the failure was a transport failure or a timeout or its
\* response had no retry-after header.
C11_LinearBackoff ==
    LET given == options.retryDelayMs
        delay == IF given.kind = "int" /\ given.val >= 0 THEN given.val ELSE 300
    IN  ( /\ pc = "backoff"
          /\ lastEvent.type \in {"timeout", "fail"} \/ ~res.retryAfter.present )
        => waitMs = delay * attempt /\ waits = attempt

\* C11 witness: the wait after the second failed attempt, a timeout, with a
\* configured delay of 100 ms.
C11_Witness ==
    /\ pc = "backoff" /\ attempt = 2 /\ lastEvent.type = "timeout"
    /\ retryDelayMs = 100 /\ waitMs = 200

\* C12: after a retryable response with a Retry-After of s seconds, s >= 0,
\* the wait before the next attempt is s * 1000 ms.
C12_RetryAfterOverrides ==
    ( /\ pc = "backoff"
      /\ lastEvent.type = "response"
      /\ res.retryAfter.present )
    => waitMs = res.retryAfter.secs * 1000

\* C13: a failure outcome carries the status and the parsed body of the most
\* recent response of the call (0 and nothing when no attempt received one),
\* the description recorded by the last attempt, which is never missing, and
\* the number of attempts made.
C13_FailureOutcomeFields ==
    [][ /\ ( pc' = "done" /\ ~result'.success )
           => ( /\ result'.status = lastStatus'
                /\ result'.responseBody = lastBody'
                /\ result'.error = lastError'
                /\ result'.error # Undefined
                /\ result'.attempts = attempt' /\ attempt' = requests'
                /\ (kinds' \cap {"retryable", "terminal"} = {})
                      => result'.status = 0 /\ result'.responseBody = Undefined
                /\ lastEvent'.type = "timeout" => result'.error.type = "timeout"
                /\ lastEvent'.type = "fail" => result'.error.type = "message"
                /\ lastEvent'.type = "response"
                      => /\ result'.error.type = "http"
                         /\ result'.error.status = result'.status )
        \* the status changes only when a response arrives, the body only
        \* when a response's body has been read
        /\ ( pc \notin {"idle", "done", "threw"} /\ lastStatus' # lastStatus )
           => pc = "fetching" /\ pc' = "reading"
        /\ ( pc \notin {"idle", "done", "threw"} /\ lastBody' # lastBody )
           => pc = "reading" /\ pc' # "reading"
      ]_vars

\* C13 witness: a 500 with a body, then a timeout on the last attempt: the
\* outcome keeps the status and body of the response and the timeout text.
C13_Witness ==
    /\ pc = "done" /\ ~result.success /\ result.status = 500
    /\ result.responseBody = [type |-> "string", raw |-> "text"]
    /\ result.error.type = "timeout" /\ result.attempts = 3

\* C15: each attempt has its own timeout timer: it is started by the step that
\* begins the attempt (never carried over from send's start or from an earlier
\* attempt), it is cleared by the step in which the attempt's network call
\* settles, and so an armed timer always belongs to the attempt whose call is
\* open; a timeout cancels the call of the attempt the timer belongs to and
\* no other, and the next attempt starts with a fresh timer.
C15_PerAttemptTimer ==
    [][ /\ (timerArmed' => pc' = "fetching" /\ timerOwner' = attempt')
        /\ (requests' = requests + 1 =>
               ~timerArmed /\ timerArmed' /\ timerOwner' = attempt')
        /\ (pc = "fetching" /\ pc' # "fetching" => ~timerArmed')
        /\ (pc = "fetching" /\ pc' # "fetching" /\ lastEvent'.type = "timeout" =>
               /\ timerOwner = attempt
               /\ attempt' = attempt
               /\ inflight' = inflight \ {attempt}) ]_vars

\* C15 witness: attempt 1 timed out, attempt 2 is running under its own timer
C15_Witness ==
    /\ pc = "fetching" /\ attempt = 2
    /\ timerArmed /\ timerOwner = 2
    /\ kinds = {"timeout"}

\* C16: in every send call the number of requests issued equals the number
\* of attempts: the count rises by one exactly when an attempt begins, it
\* equals the attempt number while the call runs and the attempts field of
\* the outcome when send returns, a call that throws issued none, and every
\* request is a POST to the endpoint given at construction.
C16_OneRequestPerAttempt ==
    [][ /\ (pc' \in {"fetching", "reading", "backoff"} => requests' = attempt')
        /\ (pc' = "done" => requests' = result'.attempts)
        /\ (pc' = "threw" => requests' = 0)
        /\ (attempt' # attempt /\ pc' # "idle" =>
               attempt' = attempt + 1 /\ requests' = requests + 1)
        /\ (requests' # requests /\ pc' # "idle" =>
               attempt' = attempt + 1 /\ requests' = requests + 1)
        /\ (requests' > 0 => wire' # {})
        /\ \A w \in wire' : w.url = endpoint' /\ w.method = "POST" ]_vars

\* C16 witness: a failed outcome after two attempts and two requests
C16_Witness ==
    /\ pc = "done" /\ ~result.success
    /\ result.attempts = 2 /\ requests = 2
    /\ wire = {Request(ValidEndpoint, ResolveHeaders(options))}

\* C17: every request send transmits carries the header Content-Type:
\* application/json, whatever headers, userAgent and idempotencyKey the
\* dispatcher was constructed with.
C17_ContentTypeJson ==
    \A w \in wire :
        /\ "Content-Type" \in DOMAIN w.headers
        /\ w.headers["Content-Type"] = "application/json"

\* C18: when an idempotency key was given at construction, every request of
\* every send carries the header Idempotency-Key with exactly that value.
C18_IdempotencyKeyOnEveryAttempt ==
    options.idempotencyKey # "" =>
        \A w \in wire :
            /\ "Idempotency-Key" \in DOMAIN w.headers
            /\ w.headers["Idempotency-Key"] = options.idempotencyKey

\* C19: a SendPack constructed with an empty endpoint, or with one that is
\* no absolute URL, is refused by the constructor with an error; no send
\* ever runs on it and no request is ever made for it.
C19_BadEndpointRefused ==
    endpoint \in {"", "not a url", "/packets"} =>
        /\ ctorError \in {"Endpoint URL is required", "Invalid endpoint URL"}
        /\ pc = "idle" /\ packet = NoPacket
        /\ requests = 0 /\ wire = {} /\ inflight = {} /\ ~timerArmed

\* C19 witness: the constructor has refused the endpoint "not a url"
C19_Witness ==
    /\ endpoint = "not a url"
    /\ ctorError = "Invalid endpoint URL"
    /\ requests = 0

\* C20 as stated: create(id, payload) followed by send against a transport
\* that echoes the request body as a 2xx JSON response yields an outcome
\* whose responseBody deep-equals the original payload.
C20_AsStated ==
    pc = "done" =>
        \A sent \in sentBodies :
            JsonValue(result.responseBody, sent) = packet.payload.fields

\* C20: for a non-empty id and a payload JSON.stringify can serialize, the
\* echoing transport makes send return a successful outcome after one
\* attempt whose responseBody is the JSON image of the whole created packet:
\* its id, its timestamp, and its payload without the fields that hold
\* undefined and with null for NaN.  For other ids and payloads send throws.
C20_RoundTripPacket ==
    LET f == packet.payload.fields
        image == IF f.a = "undef" THEN << >>
                 ELSE [a |-> IF f.a = "nan" THEN "null" ELSE f.a]
    IN  /\ (pc = "done" =>
              /\ result.success /\ result.attempts = 1
              /\ packet.id # "" /\ f.a # "bigint"
              /\ sentBodies # {}
              /\ \A sent \in sentBodies :
                    JsonValue(result.responseBody, sent) =
                        [id |-> packet.id, timestamp |-> packet.timestamp.val,
                         payload |-> image])
        /\ (pc = "threw" => packet.id = "" \/ f.a = "bigint")

\* C20 witness: the echo of a packet with a number in its payload came back
C20_Witness ==
    /\ pc = "done" /\ result.success
    /\ result.responseBody = [type |-> "json", raw |-> "echo"]
    /\ packet = create("p1", Mapping([a |-> "one"]), 7)

\* C14: concurrent send calls on one dispatcher are independent: no step
\* writes a dispatcher field (endpoint, retries, timeoutMs, retryDelayMs,
\* headers, idempotencyKey), a step of one call leaves the other call's state
\* as it is, a call resumes in exactly the state in which it was suspended,
\* and under every interleaving each call's outcome and attempt count agree
\* with its own packet and the history of its own attempts (OwnOutcome).
C14_ConcurrentSendsIndependent ==
    [][ LET OwnOutcome(c) ==
                /\ (c.pc \in {"fetching", "reading", "backoff"} =>
                      /\ c.attempt = c.requests
                      /\ c.sentBodies = {Stringify(c.packet)}
                      /\ c.body = Stringify(c.packet))
                /\ (c.pc = "threw" => ~ValidPacket(c.packet) /\ c.requests = 0)
                /\ (c.pc = "done" =>
                      /\ ValidPacket(c.packet)
                      /\ c.sentBodies = {Stringify(c.packet)}
                      /\ c.result.attempts = c.requests
                      /\ c.waits = c.requests - 1
                      /\ c.result.success =
                            (c.lastEvent.type = "response" /\ IsOk(c.result.status))
                      /\ (c.lastEvent.type = "response" =>
                            /\ c.result.status \in PairStatuses
                            /\ c.result.responseBody =
                                  [type |-> "json", raw |-> "jsonObj"])
                      /\ (~c.result.success /\ "terminal" \notin c.kinds =>
                            c.result.attempts = 2)
                      /\ (c.result.attempts = 2 =>
                            c.kinds \cap {"retryable", "timeout", "transport"} # {}))
        IN  /\ UNCHANGED cfgVars
            /\ (focus' = focus => parked' = parked)
            /\ (focus' # focus => parked' = Call /\ Call' = parked)
            /\ OwnOutcome(Call') /\ OwnOutcome(parked') ]_vars

\* C14 witness: two calls with different packets are in progress at once,
\* one in its second attempt, the other reading the response to its first
C14_Witness ==
    /\ pc = "fetching" /\ attempt = 2 /\ requests = 2
    /\ parked.pc = "reading" /\ parked.attempt = 1 /\ parked.requests = 1
    /\ packet # parked.packet

\* C21: reading and parsing a response body never makes send throw and never
\* changes how the attempt is classified: when the body read settles, a 2xx
\* status gives a successful outcome, a status outside 408, 425, 429 and
\* 500.. (or a retryable one on the last attempt) a failed outcome, and a
\* retryable status with budget left a backoff; the body kept is a parsed
\* JSON value (only under a JSON content type), the raw text of a non-empty
\* body, or absent, and an empty body is always absent.
C21_BodyReadNeverThrows ==
    [][ pc = "reading" /\ pc' # "reading" =>
          LET ok == lastStatus >= 200 /\ lastStatus <= 299
              retryable == lastStatus \in {408, 425, 429} \/ lastStatus >= 500
              budget == IF options.retries.kind = "int" /\ options.retries.val >= 0
                        THEN options.retries.val ELSE 2
          IN  /\ pc' \in {"done", "backoff"}
              /\ (pc' = "done" /\ result'.success) = ok
              /\ (pc' = "done" /\ ~result'.success) =
                    (~ok /\ (~retryable \/ attempt > budget))
              /\ (pc' = "backoff") = (~ok /\ retryable /\ attempt <= budget)
              /\ lastStatus' = lastStatus /\ attempt' = attempt
              /\ lastBody' \in
                    {Undefined}
                    \cup {[type |-> "string", raw |-> r] :
                            r \in {"text", "jsonObj", "jsonFalsy"}}
                    \cup {[type |-> "json", raw |-> r] : r \in {"jsonObj", "jsonFalsy"}}
              /\ (lastBody'.type = "json" => res.ct = "json") ]_vars

\* C21 witness: a 2xx response under a JSON content type whose body could
\* not be parsed came back as a success carrying the raw text
C21_Witness ==
    /\ pc = "done" /\ result.success
    /\ res.ct = "json"
    /\ result.responseBody = [type |-> "string", raw |-> "text"]

\* C22: construction never fails on a numeric option: a retries option that
\* is not a non-negative integer becomes 2, a timeoutMs option that is not a
\* positive integer becomes 5000, a retryDelayMs option that is not a
\* non-negative integer becomes 300, and a valid value is kept; the fields
\* keep these values in every later send.
C22_NumericOptionsDefaulted ==
    /\ ctorError = ""
    /\ retries = IF options.retries.kind = "int" /\ options.retries.val >= 0
                 THEN options.retries.val ELSE 2
    /\ timeoutMs = IF options.timeoutMs.kind = "int" /\ options.timeoutMs.val > 0
                   THEN options.timeoutMs.val ELSE 5000
    /\ retryDelayMs =
          IF options.retryDelayMs.kind = "int" /\ options.retryDelayMs.val >= 0
          THEN options.retryDelayMs.val ELSE 300

\* C22 witness: built with a fractional retries, a zero timeoutMs and a
\* negative retryDelayMs, the dispatcher used the three defaults in a send
\* that timed out three times
C22_Witness ==
    /\ options.retries = FracNum
    /\ options.timeoutMs = Num("int", 0)
    /\ options.retryDelayMs = Num("int", -1)
    /\ pc = "done" /\ result.attempts = 3
    /\ result.error = TimeoutError(5000)
    /\ waitMs = 0 /\ waits = 2

\* C23: send never modifies the packet passed to it: when send begins, at
\* every step it takes and when it returns or throws, the caller's object
\* has the id, timestamp and payload it was passed with, for every outcome
\* and number of attempts; only the caller's own write changes the object.
C23_PacketNotModified ==
    [][ /\ (~mutated' /\ pc' # "idle" => packet' = argument')
        /\ (pc # "idle" /\ pc' # "idle" /\ focus' = focus =>
              /\ argument' = argument
              /\ (mutated' = mutated => packet' = packet)) ]_vars

\* C23 witness: send returned a failed outcome after two attempts, the packet
\* it was given holds undefined in its payload and is as it was passed
C23_Witness ==
    /\ pc = "done" /\ ~result.success /\ result.attempts = 2
    /\ ~mutated
    /\ packet = argument
    /\ packet.payload = Mapping([a |-> "undef"])

\* C24: in every failure outcome of send, status and error describe the same
\* attempt: a non-zero status comes with the 'HTTP <status>' description of
\* that status as error, and when the last attempt ended in a timeout or a
\* transport failure the status is 0.
C24_StatusAndErrorSameAttempt ==
    pc = "done" /\ ~result.success =>
        /\ (result.status # 0 =>
              result.error.type = "http" /\ result.error.status = result.status)
        /\ (lastEvent.type \in {"timeout", "fail"} => result.status = 0)

\* C25: in every send call that returns an outcome the number of backoff
\* waits equals attempts - 1: a wait starts only after a failed attempt that
\* is not the last, every wait is followed by a further attempt, and no wait
\* follows the last attempt, whether the call ends by success, by a terminal
\* status or by exhausting the retry budget.
C25_WaitsBetweenAttempts ==
    [][ /\ (pc' = "done" => waits' = result'.attempts - 1)
        /\ (pc' \in {"fetching", "reading"} => waits' = attempt' - 1)
        /\ (pc' = "backoff" => waits' = attempt')
        /\ (pc = "backoff" /\ pc' # "backoff" =>
              pc' = "fetching" /\ attempt' = attempt + 1 /\ waits' = waits)
        /\ (waits' # waits /\ pc' # "idle" =>
              /\ waits' = waits + 1
              /\ pc \in {"fetching", "reading"} /\ pc' = "backoff"
              /\ attempt' = attempt) ]_vars

\* C25 witness: a success on the third attempt, after two waits
C25_Witness ==
    /\ pc = "done" /\ result.success
    /\ result.attempts = 3 /\ waits = 2

\* C26: every send call that has begun its first attempt (so on a valid
\* packet) eventually returns an outcome, given that every network call
\* settles and every backoff timer fires; the read of the response body is
\* part of what must end.
C26_SendTerminates ==
    pc \in {"fetching", "reading", "backoff"} ~> pc = "done"

C28_BatchAnalysesEachOnce ==
    LET busy == {w \in DOMAIN nbWorker : nbWorker[w] # NbNone}
        input == {nbSymbols[i] : i \in DOMAIN nbSymbols}
        returned == {nbResults[i] : i \in DOMAIN nbResults}
    IN  /\ Cardinality(busy) <= nbConcurrency
        /\ \A v, w \in busy : nbWorker[v] = nbWorker[w] => v = w
        /\ \A sym \in DOMAIN nbAnalysed : nbAnalysed[sym] <= 1
        /\ (nbPc = "returned" =>
              /\ \A sym \in input : nbAnalysed[sym] = 1
              /\ returned = input \ nbFailed
              /\ Len(nbResults) = Cardinality(returned))

\* C29: ensureModelLoaded collapses concurrent calls into one load: at most
\* one load is in flight and it is the one loadingPromise stands for; a call
\* made while a load is in flight starts no load and waits on that load; a
\* caller that waited on a load gets the result of that very load; the step
\* in which a load fails leaves loadingPromise cleared, and a call made with
\* no model and no marker starts a new load instead of getting an old result.
C29_ConcurrentCallsShareOneLoad ==
    [][ LET InFlight == {l \in DOMAIN naPromise : naPromise[l] = "pending"}
            InFlightAfter == {l \in DOMAIN naPromise' : naPromise'[l] = "pending"}
        IN  /\ Cardinality(InFlightAfter) <= 1
            /\ \A l \in InFlightAfter : naLoading' = l
            /\ InFlight # {} => Len(naPromise') = Len(naPromise)
            /\ \A c \in NaCallers :
                 /\ (InFlight # {} /\ naCaller[c].pc = "idle"
                       /\ naCaller'[c].pc # "idle")
                    => /\ naCaller'[c].pc = "waiting"
                       /\ naCaller'[c].on \in InFlight
                 /\ (naCaller[c].pc = "waiting" /\ naCaller'[c].pc = "got")
                    => /\ naCaller'[c].on = naCaller[c].on
                       /\ naCaller'[c].got = naPromise[naCaller[c].on]
                 /\ (naModel = 0 /\ InFlight = {} /\ naCaller[c].pc = "idle"
                       /\ naCaller'[c].pc # "idle")
                    => /\ Len(naPromise') = Len(naPromise) + 1
                       /\ naCaller'[c].pc = "waiting"
                       /\ naCaller'[c].on = Len(naPromise')
                       /\ naPromise'[Len(naPromise')] = "pending"
            /\ \A l \in InFlight :
                 naPromise'[l] = "failed" => naLoading' = 0 /\ naModel' = naModel
      ]_vars

\* a load failed, a later call started a second load, and both callers wait
\* on that second load
C29_Witness ==
    /\ Len(naPromise) = 2
    /\ naPromise[1] = "failed"
    /\ naPromise[2] = "pending"
    /\ naLoading = 2
    /\ \A c \in NaCallers : naCaller[c].pc = "waiting" /\ naCaller[c].on = 2

\* C30: a PATCH /api/v1/jobs/:id with a valid status for an id the tracker
\* does not hold is answered with HTTP 404 and the error "job not found",
\* emits no jobUpdated event and leaves the stored jobs as they were.
C30_PatchUnknownJobIs404 ==
    [][ (/\ jtRequests' # jtRequests
         /\ jtRequest'.method = "PATCH"
         /\ jtRequest'.body \in STATUSES
         /\ jtRequest'.id \notin DOMAIN jtJobs)
        => /\ jtResponse' = [status |-> 404, error |-> "job not found"]
           /\ jtEvents' = jtEvents
           /\ jtJobs' = jtJobs
      ]_vars

=============================================================================
